---- MODULE Spec2Model ----
(***************************************************************************)
(* Ed25519 signing core of sign/ed25519/ed25519.go: scalar arithmetic      *)
(* modulo the group order (red512, reduceModOrder, calculateS,             *)
(* isLessThan), the KeyPair object and its accessors, GenerateKey,         *)
(* NewKeyFromSeed, Sign, KeyPair.Sign and Verify.                          *)
(*                                                                         *)
(* A uint64 is a tuple of 8 bytes, least significant first; a byte slice   *)
(* is a tuple of bytes.  All arithmetic is carried out on these digits,    *)
(* so every 64-bit wrap-around of the Go code is kept.  A value that the   *)
(* code assigns and then reads several times is handed on as an operator   *)
(* argument, and a loop is a recursive operator.                           *)
(***************************************************************************)
EXTENDS Integers, Sequences, FiniteSets, TLC

(***************************************************************************)
(* 64-bit words and the math/bits primitives the code calls.               *)
(***************************************************************************)
Zero64 == <<0, 0, 0, 0, 0, 0, 0, 0>>

\* uint64(c) of a carry, a borrow or a small constant c < 256
W(c) == <<c, 0, 0, 0, 0, 0, 0, 0>>

\* three digits and two digits of a number below 2^24 and 2^16
Digits3(a) == <<a % 256, (a \div 256) % 256, (a \div 65536) % 256>>
Digits2(a) == <<a % 256, (a \div 256) % 256>>

\* bits.Add64: <<sum, carry-out>> of x + y + carry.  The digits are added three,
\* three and two at a time: a, b and t are the sums of the digits 1..3, 4..6 and
\* 7..8, each with the carry into it
Add64Low(x, y, c) == x[1] + y[1] + c + (256 * (x[2] + y[2])) + (65536 * (x[3] + y[3]))
Add64Mid(x, y, a) ==
  (a \div 16777216) + x[4] + y[4] + (256 * (x[5] + y[5])) + (65536 * (x[6] + y[6]))
Add64Top(x, y, b) == (b \div 16777216) + x[7] + y[7] + (256 * (x[8] + y[8]))
Add64Out(a, b, t) == <<Digits3(a) \o Digits3(b) \o Digits2(t), t \div 65536>>
Add64Upper(x, y, a, b) == Add64Out(a, b, Add64Top(x, y, b))
Add64Rest(x, y, a) == Add64Upper(x, y, a, Add64Mid(x, y, a))
Add64(x, y, c) == Add64Rest(x, y, Add64Low(x, y, c))

\* bits.Sub64: <<difference, borrow-out>> of x - y - borrow, in the same three steps;
\* a negative a, b or t is a borrow from the digits above
Sub64Low(x, y, b) == x[1] - y[1] - b + (256 * (x[2] - y[2])) + (65536 * (x[3] - y[3]))
Sub64Mid(x, y, a) ==
  x[4] - y[4] - (IF a < 0 THEN 1 ELSE 0) + (256 * (x[5] - y[5])) + (65536 * (x[6] - y[6]))
Sub64Top(x, y, b) == x[7] - y[7] - (IF b < 0 THEN 1 ELSE 0) + (256 * (x[8] - y[8]))
Sub64Out(a, b, t) ==
  <<Digits3((a + 16777216) % 16777216) \o Digits3((b + 16777216) % 16777216)
      \o Digits2((t + 65536) % 65536),
    IF t < 0 THEN 1 ELSE 0>>
Sub64Upper(x, y, a, b) == Sub64Out(a, b, Sub64Top(x, y, b))
Sub64Rest(x, y, a) == Sub64Upper(x, y, a, Sub64Mid(x, y, a))
Sub64(x, y, b) == Sub64Rest(x, y, Sub64Low(x, y, b))

\* column k (0..14) of the schoolbook product of two 8-digit numbers
MulCol(x, y, k) ==
  CASE
       k = 0 -> (x[1] * y[1])
    [] k = 1 -> (x[1] * y[2]) + (x[2] * y[1])
    [] k = 2 -> (x[1] * y[3]) + (x[2] * y[2]) + (x[3] * y[1])
    [] k = 3 -> (x[1] * y[4]) + (x[2] * y[3]) + (x[3] * y[2]) + (x[4] * y[1])
    [] k = 4 -> (x[1] * y[5]) + (x[2] * y[4]) + (x[3] * y[3]) + (x[4] * y[2]) + (x[5] * y[1])
    [] k = 5 -> (x[1] * y[6]) + (x[2] * y[5]) + (x[3] * y[4]) + (x[4] * y[3]) + (x[5] * y[2]) + (x[6] * y[1])
    [] k = 6 -> (x[1] * y[7]) + (x[2] * y[6]) + (x[3] * y[5]) + (x[4] * y[4]) + (x[5] * y[3]) + (x[6] * y[2]) + (x[7] * y[1])
    [] k = 7 -> (x[1] * y[8]) + (x[2] * y[7]) + (x[3] * y[6]) + (x[4] * y[5]) + (x[5] * y[4]) + (x[6] * y[3]) + (x[7] * y[2]) + (x[8] * y[1])
    [] k = 8 -> (x[2] * y[8]) + (x[3] * y[7]) + (x[4] * y[6]) + (x[5] * y[5]) + (x[6] * y[4]) + (x[7] * y[3]) + (x[8] * y[2])
    [] k = 9 -> (x[3] * y[8]) + (x[4] * y[7]) + (x[5] * y[6]) + (x[6] * y[5]) + (x[7] * y[4]) + (x[8] * y[3])
    [] k = 10 -> (x[4] * y[8]) + (x[5] * y[7]) + (x[6] * y[6]) + (x[7] * y[5]) + (x[8] * y[4])
    [] k = 11 -> (x[5] * y[8]) + (x[6] * y[7]) + (x[7] * y[6]) + (x[8] * y[5])
    [] k = 12 -> (x[6] * y[8]) + (x[7] * y[7]) + (x[8] * y[6])
    [] k = 13 -> (x[7] * y[8]) + (x[8] * y[7])
    [] k = 14 -> (x[8] * y[8])
    [] OTHER -> 0

\* the 16 digits of x * y from column k onwards, t the sum of column k with the
\* carry into it
RECURSIVE Mul64From(_, _, _, _, _)
Mul64From(x, y, k, t, out) ==
  IF k > 15 THEN out
  ELSE Mul64From(x, y, k + 1, MulCol(x, y, k + 1) + (t \div 256),
                 Append(out, t % 256))

\* bits.Mul64: <<hi, lo>> of the 128-bit product x * y
Mul64Split(p) == <<SubSeq(p, 9, 16), SubSeq(p, 1, 8)>>
Mul64(x, y) ==
  IF x = Zero64 \/ y = Zero64 THEN <<Zero64, Zero64>>
  ELSE Mul64Split(Mul64From(x, y, 0, MulCol(x, y, 0), <<>>))

\* bitwise OR and AND of two bytes
RECURSIVE OrByte(_, _)
OrByte(a, b) ==
  IF a = 0 THEN b ELSE IF b = 0 THEN a
  ELSE (IF a % 2 = 1 \/ b % 2 = 1 THEN 1 ELSE 0) + 2 * OrByte(a \div 2, b \div 2)

RECURSIVE AndByte(_, _)
AndByte(a, b) ==
  IF a = 0 \/ b = 0 THEN 0 ELSE IF a = 255 THEN b ELSE IF b = 255 THEN a
  ELSE (IF a % 2 = 1 /\ b % 2 = 1 THEN 1 ELSE 0) + 2 * AndByte(a \div 2, b \div 2)

\* x | y and x & y on uint64
Or64(x, y) ==
  <<OrByte(x[1], y[1]), OrByte(x[2], y[2]), OrByte(x[3], y[3]), OrByte(x[4], y[4]),
    OrByte(x[5], y[5]), OrByte(x[6], y[6]), OrByte(x[7], y[7]), OrByte(x[8], y[8])>>
And64(x, y) ==
  <<AndByte(x[1], y[1]), AndByte(x[2], y[2]), AndByte(x[3], y[3]), AndByte(x[4], y[4]),
    AndByte(x[5], y[5]), AndByte(x[6], y[6]), AndByte(x[7], y[7]), AndByte(x[8], y[8])>>

\* -x on uint64 (two's complement)
Neg64(x) == Sub64(Zero64, x, 0)[1]

\* x >> 63 and x >> 60 on uint64
Shr63(x) == W(x[8] \div 128)
Shr60(x) == W(x[8] \div 16)

\* x << 4 on uint64
Shl4(x) ==
  <<(x[1] % 16) * 16,
    ((x[2] % 16) * 16) + (x[1] \div 16), ((x[3] % 16) * 16) + (x[2] \div 16),
    ((x[4] % 16) * 16) + (x[3] \div 16), ((x[5] % 16) * 16) + (x[4] \div 16),
    ((x[6] % 16) * 16) + (x[5] \div 16), ((x[7] % 16) * 16) + (x[6] \div 16),
    ((x[8] % 16) * 16) + (x[7] \div 16)>>

\* e, evaluated once the tuple v has its value: the statements of the code
\* run one after the other, and so do the steps below
After(v, e) == CASE Len(v) >= 0 -> e

\* A carry chain <<words written so far, carry>>: the code's runs of
\* "w, c = bits.Add64(x, y, c)" and "w, c = bits.Sub64(x, y, c)".
NoCarry == <<<<>>, 0>>
Carried(out, t) == <<Append(out, t[1]), t[2]>>
AddTo(ch, x, y) == After(ch, After(x, After(y, Carried(ch[1], Add64(x, y, ch[2])))))
SubTo(ch, x, y) == After(ch, After(x, After(y, Carried(ch[1], Sub64(x, y, ch[2])))))

\* the words of a chain followed by its last carry as a word
CarryWords(ch) == Append(ch[1], W(ch[2]))

(***************************************************************************)
(* Scalar arithmetic modulo the order of the curve.                        *)
(***************************************************************************)
\* Size is the length in bytes of Ed25519 keys
Size == 32

\* constants of red512
ell0 == <<237, 211, 245, 92, 26, 99, 18, 88>>        \* 0x5812631a5cf5d3ed
ell1 == <<214, 156, 247, 162, 222, 249, 222, 20>>    \* 0x14def9dea2f79cd6
ell160 == <<208, 62, 93, 207, 165, 49, 38, 129>>     \* 0x812631a5cf5d3ed0
ell161 == <<101, 205, 121, 47, 234, 157, 239, 77>>   \* 0x4def9dea2f79cd65
ell162 == <<1, 0, 0, 0, 0, 0, 0, 0>>                 \* 0x0000000000000001

\* (uint64(1) << 60) - 1
Mask60 == <<255, 255, 255, 255, 255, 255, 255, 15>>

\* curve.order[:Size]: the order of the curve, 32 bytes little-endian
order ==
  <<237, 211, 245, 92, 26, 99, 18, 88, 214, 156, 247, 162, 222, 249, 222, 20,
    0, 0, 0, 0, 0, 0, 0, 0, 0, 0, 0, 0, 0, 0, 0, 16>>

\* m := -((q | -q) >> 63): if q=0 then m=0...0 else m=1..1
MaskNonZero(q) == Neg64(Shr63(Or64(q, Neg64(q))))

\* "h0, l0 := bits.Mul64(q0, e)" ... "h3, l3 := bits.Mul64(q3, e)"
MulRow(q, e) == After(q, <<Mul64(q[1], e), Mul64(q[2], e), Mul64(q[3], e), Mul64(q[4], e)>>)

\* "l1, c0 = bits.Add64(h0, l1, 0)" ... "l4, _ := bits.Add64(h3, 0, c2)":
\* the five words <<l0, l1, l2, l3, l4>> of the product whose rows are m
RowWords(m) ==
  After(m,
    <<m[1][2]>> \o
    AddTo(AddTo(AddTo(AddTo(NoCarry, m[1][1], m[2][2]), m[2][1], m[3][2]),
                m[3][1], m[4][2]), m[4][1], Zero64)[1])

\* red512, "s1, c0 = bits.Add64(s1, l0, 0)" ... "s5, s6 := bits.Add64(l4, 0, c3)":
\* gives <<s1, s2, s3, s4, s5, s6>>
red512AddRows(S, L) ==
  After(S, After(L, CarryWords(AddTo(AddTo(AddTo(AddTo(AddTo(NoCarry, S[2], L[1]), S[3], L[2]),
                               S[4], L[3]), S[5], L[4]), L[5], Zero64))))

\* red512, "s2, c0 = bits.Add64(s2, q0, 0)" ... "s6, s7 := bits.Add64(s6, 0, c3)":
\* U = <<s1, ..., s6>>; gives <<s2, s3, s4, s5, s6, s7>>
red512AddQ(U, q) ==
  After(U, CarryWords(AddTo(AddTo(AddTo(AddTo(AddTo(NoCarry, U[2], q[1]), U[3], q[2]),
                               U[4], q[3]), U[5], q[4]), U[6], Zero64)))

\* red512, the eight words <<s0, ..., s7>> of one pass before the mask
red512Join(q, s0, U) == After(U, <<s0, U[1]>> \o red512AddQ(U, q))
red512Sum(q, S, L) == After(S, After(L, red512Join(q, S[1], red512AddRows(S, L))))
red512Product(q) ==
  red512Sum(q, RowWords(MulRow(q, ell160)), RowWords(MulRow(q, ell161)))

\* red512, "s0 &= m" ... "s3 &= m"
red512Masked(s, m) ==
  After(m, <<And64(s[1], m), And64(s[2], m), And64(s[3], m), And64(s[4], m)>>)

\* red512, "if (i+1)%2 == 0 { r += s } else { r -= s }" on r = <<r0, ..., r4>>
red512Acc(r, s, i) ==
  After(s,
  IF (i + 1) % 2 = 0
  THEN AddTo(AddTo(AddTo(AddTo(AddTo(NoCarry, r[1], s[1]), r[2], s[2]),
                         r[3], s[3]), r[4], s[4]), r[5], Zero64)[1]
  ELSE SubTo(SubTo(SubTo(SubTo(SubTo(NoCarry, r[1], s[1]), r[2], s[2]),
                         r[3], s[3]), r[4], s[4]), r[5], Zero64)[1])

\* One pass of the folding loop of red512 (the body of "for i := 0; i < 3"):
\* q = <<q0, q1, q2, q3>>, r = <<r0, r1, r2, r3, r4>>; gives the new <<q, r>>.
red512Fold(q, r, i, s) ==
  After(s,
  << SubSeq(s, 5, 8),
     red512Acc(r, red512Masked(s, MaskNonZero(Or64(Or64(Or64(q[1], q[2]), q[3]), q[4]))), i) >>)
red512Round(st, i) == After(st, red512Fold(st[1], st[2], i, red512Product(st[1])))

\* red512, after the loop: "m := -(r4 >> 63)" and the addition of m & 2^4*order
red512AddBack(r, m) ==
  After(r, After(m, AddTo(AddTo(AddTo(AddTo(AddTo(NoCarry, r[1], And64(m, ell160)), r[2], And64(m, ell161)),
                    r[3], And64(m, ell162)), r[4], Zero64), r[5], And64(m, W(1)))[1]))

\* red512, the block "if full { ... }" on x = <<x0, ..., x7>>: gives <<r0, ..., r4>>
red512Fixed(r) == After(r, red512AddBack(r, Neg64(Shr63(r[5]))))
red512Full(x) ==
  red512Fixed(
    red512Round(red512Round(red512Round(
      << SubSeq(x, 5, 8), <<x[1], x[2], x[3], x[4], Zero64>> >>, 0), 1), 2)[2])

\* red512, "h0, s0 := bits.Mul64(ell0, q0)" ... "s2, _ := bits.Add64(h1, 0, c0)":
\* the three words <<s0, s1, s2>> of q0 * (ell1:ell0)
red512QuotRows(a, b) ==
  After(a, After(b, <<a[2]>> \o AddTo(AddTo(NoCarry, a[1], b[2]), b[1], Zero64)[1]))
red512Quot(q0) == red512QuotRows(Mul64(ell0, q0), Mul64(ell1, q0))

\* red512, "r3 &= (uint64(1) << 60) - 1" and "r0, c0 = bits.Sub64(r0, s0, 0)" ...
\* "r3, _ = bits.Sub64(r3, 0, c2)"
red512Sub(r, s) ==
  After(s, SubTo(SubTo(SubTo(SubTo(NoCarry, r[1], s[1]), r[2], s[2]), r[3], s[3]),
        And64(r[4], Mask60), Zero64)[1])

\* red512, the last step on r = <<r0, ..., r4>>, "q0 := (r4 << 4) | (r3 >> 60)"
\* onwards: gives <<x0, x1, x2, x3>>
red512Short(r) == After(r, red512Sub(r, red512Quot(Or64(Shl4(r[5]), Shr60(r[4])))))

\* red512 calculates x = x mod Order of the curve: the [8]uint64 left in x
red512(x, full) ==
  IF full THEN red512Short(red512Full(x)) \o <<Zero64, Zero64, Zero64, Zero64>>
  ELSE red512Short(<<x[1], x[2], x[3], x[4], Zero64>>) \o SubSeq(x, 5, 8)

\* binary.LittleEndian.Uint64(k[i*8 : (i+1)*8])
Uint64(k, i) == SubSeq(k, 8 * i + 1, 8 * i + 8)

\* "for i < numWords { X[i] = binary.LittleEndian.Uint64(...) }"
RECURSIVE GetWords(_, _)
GetWords(k, n) == IF n = 0 THEN <<>> ELSE Append(GetWords(k, n - 1), Uint64(k, n - 1))

\* "for i < numWords { binary.LittleEndian.PutUint64(k[i*8:(i+1)*8], X[i]) }"
RECURSIVE PutWords(_, _)
PutWords(X, n) == IF n = 0 THEN <<>> ELSE PutWords(X, n - 1) \o X[n]

\* the zero value of the words numWords..7 of "var X [8]uint64"
RECURSIVE ZeroWords(_)
ZeroWords(n) == IF n = 0 THEN <<>> ELSE Append(ZeroWords(n - 1), Zero64)

\* reduceModOrder: the bytes left in k
reduceModOrder(k, is512Bit) ==
  PutWords(red512(GetWords(k, Len(k) \div 8) \o ZeroWords(8 - (Len(k) \div 8)),
                  is512Bit),
           Len(k) \div 8)
  \o SubSeq(k, 8 * (Len(k) \div 8) + 1, Len(k))

\* calculateS, "S[i+0], c0 = bits.Add64(S[i+0], l0, 0)" ...
\* "S[i+4], _ = bits.Add64(S[i+4], l4, c3)"
calculateSAdd(S, l, i) ==
  After(S, After(l,
  SubSeq(S, 1, i)
  \o AddTo(AddTo(AddTo(AddTo(AddTo(NoCarry, S[i + 1], l[1]), S[i + 2], l[2]),
                       S[i + 3], l[3]), S[i + 4], l[4]), S[i + 5], l[5])[1]
  \o SubSeq(S, i + 6, 8)))

\* calculateS, one pass of "for i := range K"
calculateSRound(S, K, a, i) == calculateSAdd(S, RowWords(MulRow(K, Uint64(a, i))), i)

\* calculateS, the accumulator S after the loop: r + k*a
calculateSAcc(r, k, a) ==
  calculateSRound(calculateSRound(calculateSRound(calculateSRound(
    GetWords(r, 4) \o ZeroWords(4), GetWords(k, 4), a, 0),
    GetWords(k, 4), a, 1), GetWords(k, 4), a, 2), GetWords(k, 4), a, 3)

\* calculateS performs s = r+k*a mod Order of the curve: the 32 bytes written to s
calculateS(r, k, a) == PutWords(red512(calculateSAcc(r, k, a), TRUE), 4)

\* What a call gives back: a value, or a run-time panic
Panic == [panic |-> TRUE, value |-> FALSE]
Return(v) == [panic |-> FALSE, value |-> v]

\* isLessThan with "return x[i] <= y[i]"
RECURSIVE isLessThanOrEqualFrom(_, _, _)
isLessThanOrEqualFrom(x, y, i) ==
  IF i > 0 /\ x[i + 1] = y[i + 1] THEN isLessThanOrEqualFrom(x, y, i - 1)
  ELSE x[i + 1] <= y[i + 1]

\* isLessThan returns true if 0 <= x < y
RECURSIVE isLessThanFrom(_, _, _)
isLessThanFrom(x, y, i) ==
  IF i > 0 /\ x[i + 1] = y[i + 1] THEN isLessThanFrom(x, y, i - 1)
  ELSE x[i + 1] < y[i + 1]

\* x[Size-1] and y[Size-1] are read first: a shorter slice is a run-time panic
isLessThan(x, y) ==
  IF Len(x) < Size \/ Len(y) < Size THEN Panic
  ELSE Return(isLessThanFrom(x, y, Size - 1))

\* clamp: k[0] &= 248; k[Size-1] = (k[Size-1] & 127) | 64
clamp(k) ==
  [k EXCEPT ![1] = AndByte(k[1], 248),
            ![Size] = OrByte(AndByte(k[Size], 127), 64)]

(***************************************************************************)
(* Reference arithmetic on natural numbers written as little-endian byte   *)
(* strings.  It is what the claims are stated in: the value of a string,   *)
(* its order, r + k*a as a number, and the residue modulo the order, each  *)
(* computed digit by digit without the routines of the code above.         *)
(***************************************************************************)
\* n zero digits
RECURSIVE NumZero(_)
NumZero(n) == IF n = 0 THEN <<>> ELSE Append(NumZero(n - 1), 0)

\* x with zero digits appended up to length n
NumPad(x, n) == x \o NumZero(n - Len(x))

\* the number x is strictly less than the number y (strings of equal length),
\* decided from digit i downwards
RECURSIVE NumLessFrom(_, _, _)
NumLessFrom(x, y, i) ==
  IF i = 0 THEN FALSE
  ELSE IF x[i] # y[i] THEN x[i] < y[i]
  ELSE NumLessFrom(x, y, i - 1)

NumLess(x, y) == NumLessFrom(x, y, Len(x))

\* the order of the curve as a number: 2^252 + 27742317777372353535851937790883648493
OrderNum == order

\* the order is 2^252 + OrderLow
OrderLow == SubSeq(order, 1, 16)

\* digit i of x, zero above its length
NumDigit(x, i) == IF i <= Len(x) THEN x[i] ELSE 0

\* x - y modulo 256^Len(x) and the borrow out: <<digits, borrow>>
RECURSIVE NumSubFrom(_, _, _, _, _)
NumSubFrom(x, y, b, i, out) ==
  After(out,
  IF i > Len(x) THEN <<out, b>>
  ELSE NumSubFrom(x, y, IF x[i] - NumDigit(y, i) - b < 0 THEN 1 ELSE 0, i + 1,
                  Append(out, (x[i] - NumDigit(y, i) - b + 256) % 256)))

NumSub(x, y) == NumSubFrom(x, y, 0, 1, <<>>)

\* x + y modulo 256^Len(x)
RECURSIVE NumAddFrom(_, _, _, _, _)
NumAddFrom(x, y, c, i, out) ==
  After(out,
  IF i > Len(x) THEN out
  ELSE NumAddFrom(x, y, (x[i] + NumDigit(y, i) + c) \div 256, i + 1,
                  Append(out, (x[i] + NumDigit(y, i) + c) % 256)))

NumAdd(x, y) == NumAddFrom(x, y, 0, 1, <<>>)

\* x * q for a small number q (q < 2^12): Len(x) + 2 digits
RECURSIVE NumScaleFrom(_, _, _, _, _)
NumScaleFrom(x, q, c, i, out) ==
  After(out,
  IF i > Len(x) + 2 THEN out
  ELSE NumScaleFrom(x, q, (NumDigit(x, i) * q + c) \div 256, i + 1,
                    Append(out, (NumDigit(x, i) * q + c) % 256)))

NumScale(x, q) == NumScaleFrom(x, q, 0, 1, <<>>)

\* d = <<digits, borrow>> of a difference u - v with -order < u - v < order:
\* the residue of u - v
ModFix(d) == After(d, IF d[2] = 0 THEN d[1] ELSE NumAdd(d[1], order))

\* the residue of a 33-digit number t < 256 * order: with q = t \div 2^252,
\* t = q * 2^252 + (t % 2^252) is congruent to (t % 2^252) - q * OrderLow
ModShort(t) ==
  After(t,
    ModFix(NumSub(SubSeq(t, 1, 31) \o <<t[32] % 16>>,
                  NumScale(OrderLow, (t[33] * 16) + (t[32] \div 16)))))

\* (256*rem + b) modulo the order, for rem < order and a digit b
ModByte(rem, b) == After(rem, ModShort(<<b>> \o rem))

\* (2^64*rem + w) modulo the order, for rem < order and eight digits w
ModWord(rem, w) ==
  After(rem,
    ModByte(ModByte(ModByte(ModByte(ModByte(ModByte(ModByte(ModByte(rem,
      w[8]), w[7]), w[6]), w[5]), w[4]), w[3]), w[2]), w[1]))

\* the residue of rem followed below by the words i, i-1, ..., 1 of x: Horner's
\* rule from the top word
RECURSIVE ModFrom(_, _, _)
ModFrom(x, i, rem) ==
  After(rem, IF i = 0 THEN rem ELSE ModFrom(x, i - 1, ModWord(rem, Uint64(x, i - 1))))

\* the residue of the number x modulo the order, as a 32-byte string
ModOrder(x) == After(x, ModFrom(NumPad(x, 8 * ((Len(x) + 7) \div 8)), (Len(x) + 7) \div 8, NumZero(32)))

\* the term x[i] * y[k+2-i] of column k (0..62) of the schoolbook product
NumTerm(x, y, k, i) ==
  IF i <= Len(x) /\ i <= k + 1 /\ k + 2 - i <= Len(y) THEN x[i] * y[k + 2 - i] ELSE 0

\* the terms i, .., i + 7 of column k
NumTerms8(x, y, k, i) ==
  NumTerm(x, y, k, i) + NumTerm(x, y, k, i + 1) + NumTerm(x, y, k, i + 2)
  + NumTerm(x, y, k, i + 3) + NumTerm(x, y, k, i + 4) + NumTerm(x, y, k, i + 5)
  + NumTerm(x, y, k, i + 6) + NumTerm(x, y, k, i + 7)

\* column k of the product of two numbers of at most 32 digits
NumCol(x, y, k) ==
  NumTerms8(x, y, k, 1) + NumTerms8(x, y, k, 9)
  + NumTerms8(x, y, k, 17) + NumTerms8(x, y, k, 25)

\* the 64 column sums of r + k*a, before the carries
NumCols(r, k, a) ==
  SubSeq([j \in 1..64 |-> (IF j <= 32 THEN r[j] ELSE 0) + NumCol(k, a, j - 1)], 1, 64)

\* st = <<digits so far, carry>>; one more column
NumCarry(st, col) ==
  After(st, <<Append(st[1], (col + st[2]) % 256), (col + st[2]) \div 256>>)

\* the columns cols[i..i+7]
NumCarry8(st, cols, i) ==
  After(st,
    NumCarry(NumCarry(NumCarry(NumCarry(NumCarry(NumCarry(NumCarry(NumCarry(st,
      cols[i]), cols[i + 1]), cols[i + 2]), cols[i + 3]), cols[i + 4]),
      cols[i + 5]), cols[i + 6]), cols[i + 7]))

\* the digits of the number whose column sums are cols
NumDigits(cols) ==
  After(cols,
    NumCarry8(NumCarry8(NumCarry8(NumCarry8(NumCarry8(NumCarry8(NumCarry8(NumCarry8(
      <<<<>>, 0>>, cols, 1), cols, 9), cols, 17), cols, 25), cols, 33), cols, 41),
      cols, 49), cols, 57)[1])

\* the number r + k*a as a 64-byte string (r, k, a 32-byte strings)
NumMulAdd(r, k, a) == NumDigits(NumCols(r, k, a))

\* the bytes of a tuple of words
WordsToBytes(X) == PutWords(X, Len(X))


(***************************************************************************)
(* State.                                                                  *)
(*   call  the operation invoked last, with its arguments                  *)
(*   ret   what that operation gave back                                   *)
(*   arg   the inputs drawn for a run                                      *)
(*   sha   the SHA-512 function of the run (a black box to this package)   *)
(*   mem   the heap: the byte arrays and slices allocated so far           *)
(*   kp    the *KeyPair of the run: the places in mem of its two arrays    *)
(*   held  the places in mem of the slices the caller holds                *)
(*   thr   the goroutines that run Sign concurrently, each with its locals *)
(*   hs    the hash states made by sha512.New()                            *)
(***************************************************************************)
VARIABLES call, ret, arg, sha, mem, kp, held, thr, hs

vars == <<call, ret, arg, sha, mem, kp, held, thr, hs>>

NoCall == [op |-> "none"]

(***************************************************************************)
(* crypto/sha512.  The digest of a string is one of the entries of         *)
(* DigestTable, picked by the function sha from the byte sum of the string: *)
(* every run fixes one function from strings to digests, and the runs      *)
(* together range over a family of them.                                   *)
(***************************************************************************)
DigestTable ==
  << \* SHA-512 of the seed of RFC 8032, section 7.1, test 1
     <<53, 124, 131, 134, 79, 40, 51, 203, 66, 122, 46, 241, 192, 10, 1, 60,
     253, 255, 39, 104, 217, 128, 192, 163, 165, 32, 240, 6, 144, 77, 233, 15,
     155, 79, 10, 254, 40, 11, 116, 106, 119, 134, 132, 231, 84, 66, 80, 32,
     87, 183, 71, 58, 3, 240, 143, 150, 245, 163, 142, 146, 135, 224, 31, 143>>,
     \* the low half is 2^254 once clamped
     <<7, 0, 0, 0, 0, 0, 0, 0, 0, 0, 0, 0, 0, 0, 0, 0,
     0, 0, 0, 0, 0, 0, 0, 0, 0, 0, 0, 0, 0, 0, 0, 192,
     1, 2, 3, 4, 5, 6, 7, 8, 9, 10, 11, 12, 13, 14, 15, 16,
     17, 18, 19, 20, 21, 22, 23, 24, 25, 26, 27, 28, 29, 30, 31, 32>>,
     \* 2^252 as a 512-bit number
     <<0, 0, 0, 0, 0, 0, 0, 0, 0, 0, 0, 0, 0, 0, 0, 0,
     0, 0, 0, 0, 0, 0, 0, 0, 0, 0, 0, 0, 0, 0, 0, 16,
     0, 0, 0, 0, 0, 0, 0, 0, 0, 0, 0, 0, 0, 0, 0, 0,
     0, 0, 0, 0, 0, 0, 0, 0, 0, 0, 0, 0, 0, 0, 0, 0>> >>

\* how many entries of DigestTable a run may use
NumDigests == 2

\* how many byte-sum classes sha tells apart
NumClasses == 2

\* the weighted sum of the bytes i, i+1, ... of data
RECURSIVE ByteSum(_, _)
ByteSum(data, i) ==
  IF i > Len(data) THEN 0
  ELSE NumDigit(data, i) + (2 * NumDigit(data, i + 1)) + (3 * NumDigit(data, i + 2))
       + (4 * NumDigit(data, i + 3)) + (5 * NumDigit(data, i + 4))
       + (6 * NumDigit(data, i + 5)) + (7 * NumDigit(data, i + 6))
       + (8 * NumDigit(data, i + 7)) + ByteSum(data, i + 8)

HashClass(data) == (ByteSum(data, 1) + Len(data)) % NumClasses

\* sha512.Sum512(data), and H.Sum(nil) after the bytes data were written to H
Sum512(data) == DigestTable[sha[HashClass(data)]]

(***************************************************************************)
(* The group of the curve (pointR1, whose code is not part of this file):  *)
(* the subgroup of prime order generated by the base point B.  A point     *)
(* [n]B is held as the residue n, a 32-byte string below the order.        *)
(***************************************************************************)
\* the 32-byte encoding of a residue: the bytes complemented
Complement(b) == SubSeq([i \in 1..Len(b) |-> 255 - b[i]], 1, Len(b))

\* the residue of the number k modulo the order
Residue(k) == IF Len(k) = Size /\ NumLess(k, OrderNum) THEN k ELSE ModOrder(k)

\* P.fixedMult(k): P = [k]B
fixedMult(k) == Residue(k)

\* P.ToBytes(out): the 32-byte encoding of P
ToBytes(P) == Complement(P)

\* P.FromBytes(in): the point in encodes, ok = false if in encodes none
FromBytes(in) ==
  [ok |-> NumLess(Complement(in), OrderNum), P |-> Complement(in)]

\* P.neg(): P = -P
neg(P) == IF P = NumZero(Size) THEN P ELSE NumSub(OrderNum, P)[1]

\* Q.doubleMult(&P, m, n): Q = [m]B + [n]P
doubleMult(P, m, n) == ModOrder(NumMulAdd(Residue(m), n, P))

(***************************************************************************)
(* The scheme.  A KeyPair value is the record of its two arrays.           *)
(***************************************************************************)
\* NewKeyFromSeed: the scalar k[:Size] handed to P.fixedMult
NewKeyFromSeedScalar(private) ==
  reduceModOrder(SubSeq(clamp(Sum512(private)), 1, Size), FALSE)

\* NewKeyFromSeed: the KeyPair made from a seed of Size bytes
NewKeyFromSeed(private) ==
  IF Len(private) # Size THEN Panic
  ELSE Return([private |-> SubSeq(private, 1, Size),
               public |-> ToBytes(fixedMult(NewKeyFromSeedScalar(private)))])

\* Sign, from "H.Reset()" on: hRAM and the three scalars of calculateS
SignHRAM(k, message, h, r, R) ==
  [R |-> R, r |-> SubSeq(r, 1, Size),
   k |-> SubSeq(reduceModOrder(Sum512(R \o k.public \o message), TRUE), 1, Size),
   a |-> SubSeq(h, 1, Size)]

\* Sign, from "var P pointR1" on: the first half of the signature
SignPoint(k, message, h, r) ==
  After(r, SignHRAM(k, message, h, r, ToBytes(fixedMult(SubSeq(r, 1, Size)))))

\* Sign, from "H := sha512.New()" on: r, reduced
SignNonce(k, message, h) ==
  After(h, SignPoint(k, message, h,
                     reduceModOrder(Sum512(SubSeq(h, Size + 1, 2 * Size) \o message), TRUE)))

\* Sign with "reduceModOrder(h[:Size], false)" after the clamp
SignScalarsReduced(k, message) ==
  SignNonce(k, message,
            reduceModOrder(SubSeq(clamp(Sum512(k.private)), 1, Size), FALSE)
            \o SubSeq(Sum512(k.private), Size + 1, 2 * Size))

\* Sign: the point R and the scalars r, k, a handed to calculateS
SignScalars(k, message) == SignNonce(k, message, clamp(Sum512(k.private)))

\* Sign: the signature, signature[:Size] = R and signature[Size:] = s
SignBytes(sc) == sc.R \o calculateS(sc.r, sc.k, sc.a)

\* Sign returns the signature of a message
Sign(k, message) == SignBytes(SignScalars(k, message))

\* KeyPair.Sign without the test of opts.HashFunc()
KeyPairSignAny(k, rand, message, opts) ==
  [signature |-> Sign(k, message), err |-> "nil"]

\* KeyPair.Sign: <<signature, error>>; opts is opts.HashFunc()
KeyPairSign(k, rand, message, opts) ==
  IF opts # 0 THEN [signature |-> <<>>, err |-> "ed25519: cannot sign hashed message"]
  ELSE [signature |-> Sign(k, message), err |-> "nil"]

\* Verify, the last comparison
VerifyEqual(sig, Q) == Return(ToBytes(Q) = SubSeq(sig, 1, Size))

\* Verify, from "H := sha512.New()" on
VerifyPoint(public, message, sig, P) ==
  IF ~P.ok THEN Return(FALSE)
  ELSE VerifyEqual(sig,
         doubleMult(neg(P.P), SubSeq(sig, Size + 1, Len(sig)),
                    SubSeq(reduceModOrder(
                             Sum512(SubSeq(sig, 1, Size) \o public \o message), TRUE),
                           1, Size)))

\* Verify, from the outcome lt of isLessThan(sig[Size:], curve.order[:Size]) on
VerifyCanonical(public, message, sig, lt) ==
  IF lt.panic THEN Panic
  ELSE IF ~lt.value THEN Return(FALSE)
  ELSE VerifyPoint(public, message, sig, FromBytes(public))

\* Verify returns true if the signature is valid
Verify(public, message, sig) ==
  IF Len(public) # Size THEN Panic
  ELSE IF Len(sig) < Size THEN Panic      \* sig[Size:]: slice bounds out of range
  ELSE VerifyCanonical(public, message, sig,
                       isLessThan(SubSeq(sig, Size + 1, Len(sig)), order))

(***************************************************************************)
(* The heap.  mem[b] is the content of the array or slice at place b; a    *)
(* []byte value of the caller is a place, so that two slices over the same *)
(* array are the same place.                                               *)
(***************************************************************************)
\* the nil *KeyPair
NoKeyPair == [private |-> 0, public |-> 0]

\* *k: the contents of the two arrays of the KeyPair
KeyPairValue == [private |-> mem[kp.private], public |-> mem[kp.public]]

\* makeCopy with "return in[:]"
makeCopyAlias(in) == [mem |-> mem, out |-> in]

\* makeCopy(in): "out := make([]byte, Size); copy(out, in[:]); return out"
makeCopy(in) == [mem |-> Append(mem, SubSeq(mem[in], 1, Size)), out |-> Len(mem) + 1]

\* GetPrivate returns a copy of the private key
GetPrivate == makeCopy(kp.private)

\* GetPublic returns the public key corresponding to the private key
GetPublic == makeCopy(kp.public)

\* Public returns a crypto.PublicKey corresponding to the private key
Public == GetPublic

(***************************************************************************)
(* io.Reader and GenerateKey.  A reader is a stream of bytes and a script: *)
(* what each call of Read gives back, <<number of bytes, error>>; past the *)
(* end of the script Read gives 0, io.EOF.                                 *)
(***************************************************************************)
\* the nil io.Reader
NilReader == [name |-> "nil", data |-> <<>>, script |-> <<>>]

\* the i-th call of rnd.Read
ReadCall(rnd, i) ==
  IF i <= Len(rnd.script) THEN rnd.script[i] ELSE [n |-> 0, err |-> "EOF"]

\* Read(buf[n:]) fills at most the min - n bytes that are left
ReadCount(step, min, n) == IF step.n < min - n THEN step.n ELSE min - n

\* io.ReadAtLeast, after the loop
ReadEnd(n, err, min) ==
  [n |-> n,
   err |-> IF n >= min THEN "nil"
           ELSE IF n > 0 /\ err = "EOF" THEN "unexpected EOF" ELSE err]

\* io.ReadAtLeast, "for n < min && err == nil { nn, err = r.Read(buf[n:]); n += nn }"
\* before the i-th call of Read
RECURSIVE ReadLoop(_, _, _, _)
ReadLoop(rnd, min, n, i) ==
  IF n >= min THEN ReadEnd(n, "nil", min)
  ELSE IF ReadCall(rnd, i).err # "nil"
       THEN ReadEnd(n + ReadCount(ReadCall(rnd, i), min, n), ReadCall(rnd, i).err, min)
  ELSE ReadLoop(rnd, min, n + ReadCount(ReadCall(rnd, i), min, n), i + 1)

\* io.ReadFull(rnd, buf) for a buffer of min bytes: the count and the error
ReadFull(rnd, min) == ReadLoop(rnd, min, 0, 1)

\* GenerateKey without the test of err
GenerateKeyAnyway(rnd, rf) ==
  [kp |-> NewKeyFromSeed(SubSeq(rnd.data, 1, Size)).value, err |-> "nil"]

\* GenerateKey, after io.ReadFull gave rf: <<*KeyPair, error>>, the nil *KeyPair
\* being the value without arrays
GenerateKeyFrom(rnd, rf) ==
  IF rf.err # "nil" THEN [kp |-> [private |-> <<>>, public |-> <<>>], err |-> rf.err]
  ELSE [kp |-> NewKeyFromSeed(SubSeq(rnd.data, 1, Size)).value, err |-> "nil"]

\* GenerateKey generates a key pair using entropy from rnd; sys is crypto/rand.Reader
GenerateKey(rnd, sys) ==
  IF rnd.name = "nil" THEN GenerateKeyFrom(sys, ReadFull(sys, Size))
  ELSE GenerateKeyFrom(rnd, ReadFull(rnd, Size))

(***************************************************************************)
(* Sign as the steps of one goroutine.  A goroutine t has the locals       *)
(* pc, message, h, r, signature; its hash state H is hs[HashOf(t)].        *)
(***************************************************************************)
\* one hash state for all the calls of Sign
HashShared(t) == 1

\* "H := sha512.New()": every call of Sign makes a hash state of its own
HashOf(t) == t

\* the locals before the call
SignLocals(message) ==
  [pc |-> 0, message |-> message, h |-> <<>>, r |-> <<>>, signature |-> <<>>]

\* "h := sha512.Sum512(k.private[:]); clamp(h[:]); H := sha512.New();
\*  H.Write(h[Size:])"
SignBegin(t) ==
  /\ thr[t].pc = 0
  /\ thr' = [thr EXCEPT ![t] = [@ EXCEPT !.pc = 1,
                                         !.h = clamp(Sum512(KeyPairValue.private))]]
  /\ hs' = [hs EXCEPT ![HashOf(t)] = SubSeq(thr'[t].h, Size + 1, 2 * Size)]

\* "P.fixedMult(r[:Size]); signature := make([]byte, 2*Size);
\*  P.ToBytes(signature[:Size])"
SignCommitLocals(t, r) ==
  [thr[t] EXCEPT !.pc = 2, !.r = r,
                 !.signature = ToBytes(fixedMult(SubSeq(r, 1, Size))) \o NumZero(Size)]

\* "H.Write(message); r := H.Sum(nil); reduceModOrder(r[:], true)" and the point R
SignCommit(t) ==
  /\ thr[t].pc = 1
  /\ hs' = [hs EXCEPT ![HashOf(t)] = @ \o thr[t].message]
  /\ thr' = [thr EXCEPT ![t] =
               SignCommitLocals(t, reduceModOrder(Sum512(hs'[HashOf(t)]), TRUE))]

\* "H.Reset(); H.Write(signature[:Size]); H.Write(k.public[:]); H.Write(message)"
SignRehash(t) ==
  /\ thr[t].pc = 2
  /\ hs' = [hs EXCEPT ![HashOf(t)] =
              SubSeq(thr[t].signature, 1, Size) \o KeyPairValue.public \o thr[t].message]
  /\ thr' = [thr EXCEPT ![t] = [@ EXCEPT !.pc = 3]]

\* "hRAM := H.Sum(nil); reduceModOrder(hRAM[:], true);
\*  calculateS(signature[Size:], r[:Size], hRAM[:Size], h[:Size]); return signature"
SignFinish(t) ==
  /\ thr[t].pc = 3
  /\ thr' = [thr EXCEPT ![t] =
               [@ EXCEPT !.pc = 4,
                         !.signature =
                           SubSeq(@, 1, Size)
                           \o calculateS(SubSeq(thr[t].r, 1, Size),
                                         SubSeq(reduceModOrder(Sum512(hs[HashOf(t)]), TRUE),
                                                1, Size),
                                         SubSeq(thr[t].h, 1, Size))]]
  /\ UNCHANGED hs

(***************************************************************************)
(* Inputs.                                                                 *)
(***************************************************************************)
ScalarTable ==
  << NumPad(<<>>, 32),                                     \* 0
     NumPad(<<1>>, 32),                                    \* 1
     [order EXCEPT ![1] = 236],                            \* order - 1
     order,                                                \* order
     [NumPad(<<>>, 32) EXCEPT ![32] = 16],                 \* 2^252
     SubSeq([i \in 1..32 |-> 255], 1, 32),                 \* 2^256 - 1
     <<95, 184, 130, 21, 144, 163, 59, 172, 198, 30, 57, 112, 28, 249, 180, 107,
       210, 91, 245, 240, 89, 91, 190, 36, 101, 81, 65, 67, 142, 122, 16, 11>>,
     <<215, 90, 152, 1, 130, 177, 10, 183, 213, 75, 254, 211, 201, 100, 7, 58,
       14, 225, 114, 243, 218, 166, 35, 37, 175, 2, 26, 104, 247, 7, 81, 26>>,
     [NumPad(<<>>, 32) EXCEPT ![32] = 64],                 \* 2^254
     [order EXCEPT ![1] = 238] >>                          \* order + 1

\* how many entries of ScalarTable the inputs are drawn from
NumScalars == 6

Scalars ==
  {ScalarTable[i] : i \in 1..(IF NumScalars < Len(ScalarTable) THEN NumScalars
                              ELSE Len(ScalarTable))}

\* the [8]uint64 whose low half is the string lo and whose high half is hi
Wide(lo, hi) ==
  <<Uint64(lo, 0), Uint64(lo, 1), Uint64(lo, 2), Uint64(lo, 3),
    Uint64(hi, 0), Uint64(hi, 1), Uint64(hi, 2), Uint64(hi, 3)>>

\* the seeds of RFC 8032, section 7.1, tests 1 and 2
Seeds ==
  { <<157, 97, 177, 157, 239, 253, 90, 96, 186, 132, 74, 244, 146, 236, 44, 196,
      68, 73, 197, 105, 123, 50, 105, 25, 112, 59, 172, 3, 28, 174, 127, 96>>,
    <<76, 205, 8, 155, 40, 255, 150, 218, 157, 182, 195, 70, 236, 17, 78, 15,
      91, 138, 49, 159, 53, 171, 166, 36, 218, 140, 246, 237, 79, 184, 166, 251>> }

\* the strings handed to NewKeyFromSeed: the seeds, and one that is a byte short
SeedInputs == Seeds \cup {SubSeq(s, 1, Size - 1) : s \in Seeds}

\* the messages: the empty one and the one byte of RFC 8032, section 7.1, test 2
Messages == {<<>>, <<114>>}

\* the SHA-512 functions of the runs
ShaFunctions == [0..(NumClasses - 1) -> 1..(IF NumDigests < Len(DigestTable) THEN NumDigests
                                             ELSE Len(DigestTable))]

\* opts.HashFunc(): crypto.Hash(0), and crypto.SHA512
HashFuncs == {0, 7}

\* what one call of Read gives back
ReadResults == [n : {0, Size \div 2, Size}, err : {"nil", "EOF", "read error"}]

\* the longest script of a reader
MaxReads == 2

\* the readers: "nil", and every stream of a seed with every script
Readers ==
  {NilReader}
  \cup {[name |-> "reader", data |-> d, script |-> s] :
          d \in Seeds, s \in UNION {[1..n -> ReadResults] : n \in 0..MaxReads}}

\* crypto/rand.Reader: Read fills the buffer with the entropy of the run, drawn
\* when the reader handed to GenerateKey is nil
randReader ==
  [name |-> "crypto/rand", data |-> arg.entropy, script |-> <<[n |-> Size, err |-> "nil"]>>]

\* how many arrays and slices a run allocates
MaxBufs == 5

\* how many goroutines call Sign
NumThreads == 2

(***************************************************************************)
(* The scalar routines, each applied once to inputs drawn from the table.  *)
(***************************************************************************)
InitArith ==
  /\ call = NoCall
  /\ ret = <<>>
  /\ arg \in [x : Scalars, y : Scalars, z : Scalars]
  /\ sha \in ShaFunctions
  /\ mem = <<>>
  /\ kp = NoKeyPair
  /\ held = {}
  /\ thr = <<>>
  /\ hs = <<>>

DoRed512 ==
  \E full \in BOOLEAN :
    /\ call.op = "none"
    /\ call' = [op |-> "red512", x |-> Wide(arg.x, arg.y), full |-> full]
    /\ ret' = red512(Wide(arg.x, arg.y), full)
    /\ UNCHANGED <<arg, sha, mem, kp, held, thr, hs>>

DoReduceModOrder ==
  \E k \in {arg.x, arg.x \o arg.y}, is512Bit \in BOOLEAN :
    /\ call.op = "none"
    /\ call' = [op |-> "reduceModOrder", k |-> k, is512Bit |-> is512Bit]
    /\ ret' = reduceModOrder(k, is512Bit)
    /\ UNCHANGED <<arg, sha, mem, kp, held, thr, hs>>

DoCalculateS ==
  /\ call.op = "none"
  /\ call' = [op |-> "calculateS", r |-> arg.x, k |-> arg.y, a |-> arg.z]
  /\ ret' = [s |-> calculateS(arg.x, arg.y, arg.z),
             acc |-> calculateSAcc(arg.x, arg.y, arg.z)]
  /\ UNCHANGED <<arg, sha, mem, kp, held, thr, hs>>

DoClamp ==
  /\ call.op = "none"
  /\ call' = [op |-> "clamp", k |-> arg.x \o arg.y]
  /\ ret' = clamp(arg.x \o arg.y)
  /\ UNCHANGED <<arg, sha, mem, kp, held, thr, hs>>

NextArith == DoRed512 \/ DoReduceModOrder \/ DoCalculateS \/ DoClamp

SpecArith == InitArith /\ [][NextArith]_vars

(***************************************************************************)
(* The calls of the package on one KeyPair.  arg.made keeps the KeyPair    *)
(* value as NewKeyFromSeed made it.                                        *)
(***************************************************************************)
\* the caller holds a seed buffer; no KeyPair yet
InitRun ==
  /\ call = NoCall
  /\ ret = <<>>
  /\ sha \in ShaFunctions
  /\ mem = <<arg.seed>>
  /\ kp = NoKeyPair
  /\ held = {1}
  /\ hs = [t \in 1..NumThreads |-> <<>>]

\* kp = NewKeyFromSeed(seed): either a panic, or a new KeyPair with its two arrays
CallNewKeyFromSeed ==
  /\ call.op = "none"
  /\ call' = [op |-> "NewKeyFromSeed", private |-> mem[1]]
  /\ ret' = NewKeyFromSeed(mem[1])
  /\ IF ret'.panic THEN UNCHANGED <<arg, mem, kp>>
     ELSE /\ mem' = mem \o <<ret'.value.private, ret'.value.public>>
          /\ kp' = [private |-> Len(mem) + 1, public |-> Len(mem) + 2]
          /\ arg' = [arg EXCEPT !.made = ret'.value]
  /\ UNCHANGED <<sha, held, thr, hs>>

\* a call of an accessor: the caller holds the slice it returns
CallAccessor(op, c) ==
  /\ kp # NoKeyPair
  /\ Len(mem) < MaxBufs
  /\ call' = [op |-> op]
  /\ ret' = c.out
  /\ mem' = c.mem
  /\ held' = held \cup {c.out}
  /\ UNCHANGED <<arg, sha, kp, thr, hs>>

CallGetPrivate == CallAccessor("GetPrivate", GetPrivate)

CallGetPublic == CallAccessor("GetPublic", GetPublic)

CallPublic == CallAccessor("Public", Public)

\* the caller writes to a slice it holds: the seed buffer, or a slice an accessor returned
CallerWrite ==
  \E b \in held :
    /\ kp # NoKeyPair
    /\ call' = [op |-> "write", buf |-> b]
    /\ ret' = <<>>
    /\ mem' = [mem EXCEPT ![b] = [@ EXCEPT ![1] = 255 - @]]
    /\ UNCHANGED <<arg, sha, kp, held, thr, hs>>

CallSign ==
  \E message \in Messages :
    /\ kp # NoKeyPair
    /\ call' = [op |-> "Sign", message |-> message]
    /\ ret' = Sign(KeyPairValue, message)
    /\ UNCHANGED <<arg, sha, mem, kp, held, thr, hs>>

CallKeyPairSign ==
  \E rand \in {"nil", "reader"}, message \in Messages, opts \in HashFuncs :
    /\ kp # NoKeyPair
    /\ call' = [op |-> "KeyPair.Sign", rand |-> rand, message |-> message, opts |-> opts]
    /\ ret' = KeyPairSign(KeyPairValue, rand, message, opts)
    /\ UNCHANGED <<arg, sha, mem, kp, held, thr, hs>>

InitKey ==
  /\ arg \in [seed : Seeds, made : {<<>>}]
  /\ InitRun
  /\ thr = <<>>

\* the caller takes what the call gave back and goes on
CallerResumes ==
  /\ call.op \notin {"none", "idle"}
  /\ kp # NoKeyPair
  /\ call' = [op |-> "idle"]
  /\ ret' = <<>>
  /\ UNCHANGED <<arg, sha, mem, kp, held, thr, hs>>

\* one caller: a call is made when the one before has returned
NextKey ==
  \/ CallNewKeyFromSeed
  \/ CallerResumes
  \/ (call.op = "idle" /\ CallGetPrivate)
  \/ (call.op = "idle" /\ CallGetPublic)
  \/ (call.op = "idle" /\ CallPublic)
  \/ (call.op = "idle" /\ CallerWrite)
  \/ (call.op = "idle" /\ CallSign)
  \/ (call.op = "idle" /\ CallKeyPairSign)

SpecKey == InitKey /\ [][NextKey]_vars

(***************************************************************************)
(* Key, signature, verification: NewKeyFromSeed, then Sign, then Verify on *)
(* what Sign returned or on a variant of it; and isLessThan by itself.     *)
(***************************************************************************)
\* the signatures handed to Verify
SigVariants ==
  {"same", "empty", "short31", "short32", "short63", "long72", "plusOrder", "order", "otherR"}

Variant(sig, how) ==
  CASE how = "same" -> sig
    [] how = "empty" -> <<>>
    [] how = "short31" -> SubSeq(sig, 1, Size - 1)
    [] how = "short32" -> SubSeq(sig, 1, Size)
    [] how = "short63" -> SubSeq(sig, 1, 2 * Size - 1)
    [] how = "long72" -> sig \o NumZero(8)
    [] how = "plusOrder" ->
         SubSeq(sig, 1, Size) \o NumAdd(SubSeq(sig, Size + 1, 2 * Size), OrderNum)
    [] how = "order" -> SubSeq(sig, 1, Size) \o order
    [] how = "otherR" -> [sig EXCEPT ![1] = 255 - @]

\* the public keys handed to Verify
KeyVariants == {"own", "undecodable", "short"}

KeyVariant(public, how) ==
  CASE how = "own" -> public
    [] how = "undecodable" -> NumZero(Size)
    [] how = "short" -> SubSeq(public, 1, Size - 1)

CallVerify ==
  \E message \in Messages, how \in SigVariants, key \in KeyVariants :
    /\ call.op = "Sign"
    /\ call' = [op |-> "Verify", public |-> KeyVariant(KeyPairValue.public, key),
                message |-> message, sig |-> Variant(ret, how),
                key |-> key, how |-> how, signed |-> call.message]
    /\ ret' = Verify(call'.public, message, call'.sig)
    /\ UNCHANGED <<arg, sha, mem, kp, held, thr, hs>>

CallIsLessThan ==
  \E x \in Scalars, y \in Scalars :
    /\ call.op = "none"
    /\ call' = [op |-> "isLessThan", x |-> x, y |-> y]
    /\ ret' = isLessThan(x, y)
    /\ UNCHANGED <<arg, sha, mem, kp, held, thr, hs>>

Init ==
  /\ arg \in [seed : SeedInputs, made : {<<>>}]
  /\ InitRun
  /\ thr = <<>>

Next ==
  \/ CallNewKeyFromSeed
  \/ (call.op = "NewKeyFromSeed" /\ CallSign)
  \/ CallVerify
  \/ CallIsLessThan

Spec == Init /\ [][Next]_vars

(***************************************************************************)
(* GenerateKey on a reader.                                                *)
(***************************************************************************)
InitGen ==
  /\ arg \in [rnd : Readers \ {NilReader}, entropy : {<<>>}]
            \cup [rnd : {NilReader}, entropy : Seeds]
  /\ call = NoCall
  /\ ret = <<>>
  /\ sha \in ShaFunctions
  /\ mem = <<>>
  /\ kp = NoKeyPair
  /\ held = {}
  /\ thr = <<>>
  /\ hs = <<>>

CallGenerateKey ==
  /\ call.op = "none"
  /\ call' = [op |-> "GenerateKey", rnd |-> arg.rnd]
  /\ ret' = GenerateKey(arg.rnd, randReader)
  /\ IF ret'.err # "nil" THEN UNCHANGED <<mem, kp>>
     ELSE /\ mem' = <<ret'.kp.private, ret'.kp.public>>
          /\ kp' = [private |-> 1, public |-> 2]
  /\ UNCHANGED <<arg, sha, held, thr, hs>>

NextGen == CallGenerateKey

SpecGen == InitGen /\ [][NextGen]_vars

(***************************************************************************)
(* Goroutines that call Sign on one KeyPair.                               *)
(***************************************************************************)
InitConc ==
  /\ arg \in [seed : Seeds, made : {<<>>}]
  /\ InitRun
  /\ thr \in [1..NumThreads -> {SignLocals(m) : m \in Messages}]

\* a step of goroutine t touches its locals and its hash state only
Step(t) ==
  /\ kp # NoKeyPair
  /\ UNCHANGED <<call, ret, arg, sha, mem, kp, held>>

NextConc ==
  \/ CallNewKeyFromSeed
  \/ \E t \in 1..NumThreads : Step(t) /\ SignBegin(t)
  \/ \E t \in 1..NumThreads : Step(t) /\ SignCommit(t)
  \/ \E t \in 1..NumThreads : Step(t) /\ SignRehash(t)
  \/ \E t \in 1..NumThreads : Step(t) /\ SignFinish(t)

SpecConc == InitConc /\ [][NextConc]_vars

(***************************************************************************)
(* Reference notions of the claims.                                        *)
(***************************************************************************)
\* the number x is below the number y: x - y borrows
NumBelow(x, y) == NumSub(x, y)[2] = 1

\* the bytes the calls 1..i of Read deliver together
RECURSIVE ReadBytes(_, _)
ReadBytes(script, i) == IF i = 0 THEN 0 ELSE ReadBytes(script, i - 1) + script[i].n

\* the calls of Read that give an error; the end of the script is io.EOF
ReadStops(script) ==
  {i \in 1..Len(script) : script[i].err # "nil"} \cup {Len(script) + 1}

\* the first call of Read that gives an error
ReadStop(script) == CHOOSE i \in ReadStops(script) : \A j \in ReadStops(script) : i <= j

\* the reader delivers min bytes: no later than with its first error
ReadDelivers(script, min) ==
  \E i \in 1..Len(script) : i <= ReadStop(script) /\ ReadBytes(script, i) >= min

\* the error of the reader
ReadError(script) ==
  IF ReadStop(script) <= Len(script) THEN script[ReadStop(script)].err ELSE "EOF"

C3_CanonicalS ==
  /\ (call.op = "isLessThan" /\ Len(call.x) = Size /\ Len(call.y) = Size)
     => ret = Return(NumBelow(call.x, call.y))
  /\ (call.op = "Verify" /\ Len(call.public) = Size /\ Len(call.sig) = 2 * Size
        /\ ~NumBelow(SubSeq(call.sig, Size + 1, 2 * Size), OrderNum))
     => ret = Return(FALSE)

\* Verify was handed the signature of its message with S replaced by the order
\* itself, the case x = y of isLessThan, and returned false
C3_Witness ==
  /\ call.op = "Verify"
  /\ call.how = "order" /\ call.key = "own" /\ call.message = call.signed
  /\ SubSeq(call.sig, Size + 1, 2 * Size) = OrderNum
  /\ ret = Return(FALSE)

(***************************************************************************)
(* C4  Wrong-length signature: Verify on a 32-byte public key and a        *)
(* signature whose length is not 64 returns false; it does not panic and   *)
(* never returns true.                                                     *)
(***************************************************************************)
C4_WrongLength ==
  (call.op = "Verify" /\ Len(call.public) = Size /\ Len(call.sig) # 2 * Size)
  => ret = Return(FALSE)

(***************************************************************************)
(* C10  The scalars of Sign, as the code has them: the scalar a handed to  *)
(* calculateS is the clamped low half of the digest of the seed, not       *)
(* reduced, hence not below the order; the scalar NewKeyFromSeed hands to  *)
(* fixedMult is the short-mode reduction of that a.                        *)
(***************************************************************************)
C10_SignScalars ==
  call.op = "Sign" =>
    /\ SignScalars(KeyPairValue, call.message).a
         = SubSeq(clamp(Sum512(KeyPairValue.private)), 1, Size)
    /\ ~NumBelow(SignScalars(KeyPairValue, call.message).a, OrderNum)
    /\ NewKeyFromSeedScalar(KeyPairValue.private)
         = reduceModOrder(SignScalars(KeyPairValue, call.message).a, FALSE)

\* Sign returned a signature, made with a scalar a that is not the scalar of
\* NewKeyFromSeed
C10_Witness ==
  /\ call.op = "Sign"
  /\ Len(ret) = 2 * Size
  /\ SignScalars(KeyPairValue, call.message).a # NewKeyFromSeedScalar(KeyPairValue.private)

\* C10 as stated: the scalars r, k, a handed to calculateS are all below the
\* order, and a is the scalar NewKeyFromSeed hands to fixedMult
C10_AsStated ==
  call.op = "Sign" =>
    /\ NumBelow(SignScalars(KeyPairValue, call.message).r, OrderNum)
    /\ NumBelow(SignScalars(KeyPairValue, call.message).k, OrderNum)
    /\ NumBelow(SignScalars(KeyPairValue, call.message).a, OrderNum)
    /\ SignScalars(KeyPairValue, call.message).a
         = NewKeyFromSeedScalar(KeyPairValue.private)

(***************************************************************************)
(* C2  Scalar reduction laws: for every 512-bit x, red512 in full mode     *)
(* leaves in limbs 0..3 the canonical representative of x modulo the order *)
(* (congruent to x and strictly less than the order) and limbs 4..7 zero.  *)
(***************************************************************************)
C2_Red512Laws ==
  (call.op = "red512" /\ call.full) =>
    /\ ModOrder(PutWords(ret, 4)) = ModOrder(WordsToBytes(call.x))
    /\ NumLess(PutWords(ret, 4), OrderNum)
    /\ SubSeq(ret, 5, 8) = <<Zero64, Zero64, Zero64, Zero64>>

(***************************************************************************)
(* C5  Multiply-add law: calculateS writes to s a value congruent to       *)
(* r + k*a modulo the order, and the accumulator holds exactly r + k*a     *)
(* before the reduction.                                                   *)
(***************************************************************************)
C5_MultiplyAddLaw ==
  call.op = "calculateS" =>
    /\ WordsToBytes(ret.acc) = NumMulAdd(call.r, call.k, call.a)
    /\ ModOrder(ret.s) = ModOrder(NumMulAdd(call.r, call.k, call.a))

(***************************************************************************)
(* C6  KeyPair immutability and copy independence: after                   *)
(* kp = NewKeyFromSeed(seed), whatever calls of Sign, KeyPair.Sign and the *)
(* accessors are made and whatever the caller writes to the seed buffer or *)
(* to the slices the accessors returned, the KeyPair keeps the seed and    *)
(* the public key it was made with, GetPrivate returns the seed and        *)
(* GetPublic and Public return that public key, each in a slice of its own.*)
(***************************************************************************)
C6_KeyPairImmutable ==
  /\ kp # NoKeyPair =>
       /\ KeyPairValue = arg.made
       /\ KeyPairValue.private = arg.seed
  /\ call.op = "GetPrivate" => mem[ret] = arg.seed
  /\ call.op \in {"GetPublic", "Public"} => mem[ret] = arg.made.public
  /\ call.op \in {"GetPrivate", "GetPublic", "Public"} =>
       /\ ret \notin {kp.private, kp.public}
       /\ ret # 1

\* after the caller wrote to the seed buffer and to a slice GetPrivate had
\* returned, GetPrivate returned the seed again, in another slice
C6_Witness ==
  /\ call.op = "GetPrivate"
  /\ mem[ret] = arg.seed
  /\ mem[1] # arg.seed
  /\ \E b \in held \ {1, ret} : mem[b] = [arg.seed EXCEPT ![1] = 255 - @]

(***************************************************************************)
(* C8  Pre-hash refusal: KeyPair.Sign returns an error and no signature    *)
(* when opts.HashFunc() is not zero; when it is zero it returns a nil      *)
(* error and exactly Sign(k, message), whatever reader is passed; either   *)
(* way the call leaves the KeyPair, and the rest of the heap, unchanged.   *)
(***************************************************************************)
C8_PreHashRefusal ==
  /\ [](call.op = "KeyPair.Sign" =>
          IF call.opts # 0 THEN ret.err # "nil" /\ ret.signature = <<>>
          ELSE ret.err = "nil" /\ ret.signature = Sign(KeyPairValue, call.message))
  /\ [][call'.op = "KeyPair.Sign" => (kp' = kp /\ mem' = mem)]_vars

\* KeyPair.Sign was called with a hash function and returned the error
C8_Witness ==
  /\ call.op = "KeyPair.Sign"
  /\ call.opts # 0
  /\ ret = [signature |-> <<>>, err |-> "ed25519: cannot sign hashed message"]

C7_ConcurrentSign ==
  \A t \in DOMAIN thr :
    thr[t].pc = 4 =>
      /\ thr[t].signature = Sign(KeyPairValue, thr[t].message)
      /\ Len(thr[t].signature) = 2 * Size
      /\ \A u \in DOMAIN thr :
           (thr[u].pc = 4 /\ thr[u].message = thr[t].message)
           => thr[u].signature = thr[t].signature

\* two calls with different messages have both returned
C7_Witness ==
  /\ thr[1].pc = 4 /\ thr[2].pc = 4
  /\ thr[1].message # thr[2].message
  /\ thr[1].signature # thr[2].signature
====
